---- MODULE Spec2Model ----
(***************************************************************************)
(* Model of the role renaming engine of "Python Training/Role_Rename.py":  *)
(* find_file_recursive, format_file_name, escape_special_characters,       *)
(* process_role, process_files and execute_process.                        *)
(*                                                                         *)
(* Text (role names, file names, file contents) is a sequence of           *)
(* one-character strings, so that the regular-expression rewrites, the     *)
(* escaping and the trimming are computed character by character as the    *)
(* code computes them.  The filesystem is a function from the paths of the *)
(* existing files, <<directory, file name>>, to their contents.            *)
(***************************************************************************)
EXTENDS Integers, Sequences, FiniteSets, TLC

(***************************************************************************)
(* Bounds of the model.                                                    *)
(***************************************************************************)
\* Largest number of data rows of the mapping file.
MaxRows == 2
\* Largest number of times the Execute button is pressed.
MaxRuns == 2
\* Largest number of filesystem operations that fail.
MaxFaults == 1
\* Largest length of the texts the text functions are applied to.
MaxTextLen == 2

(***************************************************************************)
(* Text.                                                                   *)
(***************************************************************************)
\* Python's None (a missing CSV field, process_role's result on success).
None == <<"None">>

\* The characters role names are made of in the model: letters (one of them
\* not an ASCII letter), digits, whitespace.
AsciiLetters == {"A"}
Letters == AsciiLetters \cup {"é"}
Digits == {"1"}
Whitespace == {" ", "\n"}

\* The characters matched by \w in a str pattern: alphanumerics and "_".
WordChars == Letters \cup Digits \cup {"_"}

RECURSIVE Concat(_)
\* The concatenation of a sequence of texts.
Concat(parts) ==
  IF parts = <<>> THEN <<>> ELSE Head(parts) \o Concat(Tail(parts))

\* Whether text lit occurs in text s at position i.
LitAt(s, i, lit) ==
  /\ i + Len(lit) - 1 <= Len(s)
  /\ \A k \in 1..Len(lit) : s[i + k - 1] = lit[k]

RECURSIVE lstrip(_)
lstrip(s) ==
  IF s # <<>> /\ Head(s) \in Whitespace THEN lstrip(Tail(s)) ELSE s

RECURSIVE rstrip(_)
rstrip(s) ==
  IF s # <<>> /\ s[Len(s)] \in Whitespace
  THEN rstrip(SubSeq(s, 1, Len(s) - 1)) ELSE s

\* str.strip(): surrounding whitespace removed.
strip(s) == rstrip(lstrip(s))

RECURSIVE str_replace(_, _, _)
\* str.replace(key, value) for a one-character key.
str_replace(s, key, value) ==
  IF s = <<>> THEN <<>>
  ELSE (IF Head(s) = key THEN value ELSE <<Head(s)>>)
       \o str_replace(Tail(s), key, value)

\* Mutant: the pattern is r'[^\w]', and the hyphen is replaced too.
sanitize_HyphenReplaced(role_name) ==
  [i \in 1..Len(role_name) |->
     IF role_name[i] \in WordChars THEN role_name[i] ELSE "_"]

\* re.sub(r'[^\w\-]', '_', role_name)
sanitize(role_name) ==
  [i \in 1..Len(role_name) |->
     IF role_name[i] \in WordChars \cup {"-"} THEN role_name[i] ELSE "_"]

format_file_name(role_name) ==
  <<"N", "A", "B", "_", "B", "u", "n", "d", "l", "e", "_">>
  \o sanitize(role_name) \o <<".", "x", "m", "l">>

\* Mutant: the ampersand is the last key of the dictionary.
replacements_AmpersandLast ==
  << <<"<", <<"&", "l", "t", ";">> >>,
     <<">", <<"&", "g", "t", ";">> >>,
     <<"\"", <<"&", "q", "u", "o", "t", ";">> >>,
     <<"'", <<"&", "a", "p", "o", "s", ";">> >>,
     <<"&", <<"&", "a", "m", "p", ";">> >> >>

\* The replacements dictionary, in its insertion order.
replacements ==
  << <<"&", <<"&", "a", "m", "p", ";">> >>,
     <<"<", <<"&", "l", "t", ";">> >>,
     <<">", <<"&", "g", "t", ";">> >>,
     <<"\"", <<"&", "q", "u", "o", "t", ";">> >>,
     <<"'", <<"&", "a", "p", "o", "s", ";">> >> >>

RECURSIVE replace_all(_, _)
\* for key, value in replacements.items(): role_name = role_name.replace(...)
replace_all(role_name, items) ==
  IF items = <<>> THEN role_name
  ELSE replace_all(str_replace(role_name, Head(items)[1], Head(items)[2]),
                   Tail(items))

escape_special_characters(role_name) == replace_all(role_name, replacements)

(***************************************************************************)
(* The two regular-expression rewrites of process_role.                    *)
(***************************************************************************)
\* What re.sub raises for a replacement template it cannot parse.
ReError == <<"re.error">>

OctDigits == {"0", "1", "2", "3", "4", "5", "6", "7"}

displayNameEq == <<"d", "i", "s", "p", "l", "a", "y", "N", "a", "m", "e", "=", "\"">>
nameEq == <<"n", "a", "m", "e", "=", "\"">>
BundleTag == <<"<", "B", "u", "n", "d", "l", "e">>
disabledAttr ==
  <<"d", "i", "s", "a", "b", "l", "e", "d", "=", "\"", "t", "r", "u", "e", "\"", " ">>

RECURSIVE NextQuote(_, _)
\* The position of the first '"' of s at or after i, 0 when there is none:
\* where [^"]*" ends.
NextQuote(s, i) ==
  IF i > Len(s) THEN 0
  ELSE IF s[i] = "\"" THEN i ELSE NextQuote(s, i + 1)

RECURSIVE SkipWhitespace(_, _)
\* The first position at or after i that holds no whitespace: where the
\* greedy \s* ends.
SkipWhitespace(s, i) ==
  IF i <= Len(s) /\ s[i] \in Whitespace THEN SkipWhitespace(s, i + 1) ELSE i

\* The last position of the match of
\*   (displayName=")[^"]*(")\s+(name=")[^"]*(")
\* that starts at position i of s, 0 when none starts there.
IdentityMatchEnd(s, i) ==
  IF ~LitAt(s, i, displayNameEq) THEN 0
  ELSE LET q1 == NextQuote(s, i + Len(displayNameEq))
       IN  IF q1 = 0 THEN 0
           ELSE LET w == SkipWhitespace(s, q1 + 1)
                IN  IF w = q1 + 1 \/ ~LitAt(s, w, nameEq) THEN 0
                    ELSE NextQuote(s, w + Len(nameEq))

\* The character a three-digit octal escape of the template stands for.
OctalChar(d1, d2, d3) ==
  CASE <<d1, d2, d3>> = <<"1", "1", "1">> -> "chr(0o111)"
    [] <<d1, d2, d3>> = <<"3", "1", "1">> -> "chr(0o311)"
    [] OTHER -> "?"

\* The expansion of the template piece '\<d>' + text, where group d matched
\* the literal group: a digit at the head of text is read as part of the
\* escape, which then is an octal character (three octal digits) or a
\* reference to a group the pattern does not have.
GroupThenText(d, group, text) ==
  IF text # <<>> /\ text[1] \in Digits
  THEN IF Len(text) >= 2 /\ {d, text[1], text[2]} \subseteq OctDigits
       THEN <<OctalChar(d, text[1], text[2])>> \o SubSeq(text, 3, Len(text))
       ELSE ReError
  ELSE group \o text

\* The text that replaces each match: the template
\*   r'\1' + new_role_escaped + r'\2 \3' + new_role_escaped + r'\4'
\* expanded, or ReError.
IdentityReplacement(new_role_escaped) ==
  LET first == GroupThenText("1", displayNameEq, new_role_escaped)
      second == GroupThenText("3", nameEq, new_role_escaped)
  IN  IF first = ReError \/ second = ReError THEN ReError
      ELSE first \o <<"\"", " ">> \o second \o <<"\"">>

RECURSIVE SubIdentityFrom(_, _, _)
SubIdentityFrom(s, i, repl) ==
  IF i > Len(s) THEN <<>>
  ELSE LET e == IdentityMatchEnd(s, i)
       IN  IF e = 0 THEN <<s[i]>> \o SubIdentityFrom(s, i + 1, repl)
           ELSE repl \o SubIdentityFrom(s, e + 1, repl)

\* re.sub(r'(displayName=")[^"]*(")\s+(name=")[^"]*(")', template, content)
rewrite_identity(content, new_role_escaped) ==
  LET repl == IdentityReplacement(new_role_escaped)
  IN  IF repl = ReError THEN ReError ELSE SubIdentityFrom(content, 1, repl)

RECURSIVE SubDisabledFrom(_, _)
SubDisabledFrom(s, i) ==
  IF i > Len(s) THEN <<>>
  ELSE LET w == SkipWhitespace(s, i + Len(BundleTag))
       IN  IF LitAt(s, i, BundleTag) /\ w > i + Len(BundleTag)
           THEN SubSeq(s, i, w - 1) \o disabledAttr \o SubDisabledFrom(s, w)
           ELSE <<s[i]>> \o SubDisabledFrom(s, i + 1)

\* re.sub(r'(<Bundle\s+)', r'\1disabled="true" ', content)
mark_disabled(content) == SubDisabledFrom(content, 1)

(***************************************************************************)
(* The inputs: the bundle folder's files and the mapping file.             *)
(***************************************************************************)
\* The directories of the bundle folder: the folder itself, a subfolder of
\* role files and the folder of the disabled copies.
BundleRoot == "bundle"
SubFolder == "bundle/roles"
DisabledFolder == "bundle/00_Disabled"
SubDirs == {SubFolder, DisabledFolder}

\* A role file as the application finds it.
RoleDocument(role_name) ==
  Concat(<< BundleTag, <<" ">>,
            displayNameEq, escape_special_characters(role_name), <<"\"", " ">>,
            nameEq, escape_special_characters(role_name), <<"\"", ">">> >>)

\* The role that has a file when the application starts.
ExistingRole == <<"A">>

\* The names the mapping file holds in its two columns: the existing role
\* and a name that is empty once trimmed; the existing role again (padded:
\* the same file name), a name to escape and a name that starts with a
\* digit.
OriginalNames == {<<"A">>, <<" ">>}
NewNames == {<<"A", " ">>, <<"&">>, <<"1">>}

OriginalColumn == "Original Role Name"
NewColumn == "New Role Name"

\* The header rows of the mapping files.
Headers ==
  {<<OriginalColumn, NewColumn>>, <<OriginalColumn>>, <<NewColumn>>}

\* A data row: its fields in column order; a row may be short.
DataRows ==
  {<<o>> : o \in OriginalNames}
  \cup {<<o, n>> : o \in OriginalNames, n \in NewNames}

RECURSIVE SeqsUpTo(_, _)
\* The sequences of at most n members of S.
SeqsUpTo(S, n) ==
  IF n = 0 THEN {<<>>}
  ELSE LET shorter == SeqsUpTo(S, n - 1)
       IN  shorter \cup {Append(q, x) : q \in shorter, x \in S}

\* The mapping files: absent, or a header row and at most MaxRows data rows.
CsvFiles ==
  {[exists |-> FALSE, header |-> <<>>, rows |-> <<>>]}
  \cup {[exists |-> TRUE, header |-> h, rows |-> r] :
          h \in Headers, r \in SeqsUpTo(DataRows, MaxRows)}

\* The places the existing role's file may be in when the application
\* starts: the bundle folder, the subfolder, or the subfolder and the
\* disabled folder (a copy left by an earlier session).
InitialPlaces ==
  {{BundleRoot}, {SubFolder}, {SubFolder, DisabledFolder}}

\* csv.DictReader's row: the header's names mapped to the row's fields in
\* order, None for a field the row does not have.
DictRow(header, fields) ==
  [k \in {header[i] : i \in 1..Len(header)} |->
     LET i == CHOOSE j \in 1..Len(header) : header[j] = k
     IN  IF i <= Len(fields) THEN fields[i] ELSE None]

(***************************************************************************)
(* The filesystem.                                                         *)
(***************************************************************************)
\* os.path.join(folder, file_name)
path_join(folder, file_name) == <<folder, file_name>>
\* os.path.dirname(path)
dirname(path) == path[1]

NotFoundFile ==
  <<"n", "o", "t", "_", "f", "o", "u", "n", "d", "_",
    "r", "o", "l", "e", "s", ".", "t", "x", "t">>

\* The paths os.walk may meet first among those named file_name: the one in
\* the folder itself if there is one (the walk is top-down), else the one of
\* any subfolder (the order of the subfolders is the directory listing's).
find_file_recursive(files, folder, file_name) ==
  IF path_join(folder, file_name) \in DOMAIN files
  THEN {path_join(folder, file_name)}
  ELSE {path_join(d, file_name) : d \in SubDirs} \cap DOMAIN files

\* The filesystem with text written to path.
WriteFile(files, path, text) ==
  [p \in DOMAIN files \cup {path} |-> IF p = path THEN text ELSE files[p]]

\* os.remove(path)
RemoveFile(files, path) ==
  [p \in DOMAIN files \ {path} |-> files[p]]

(***************************************************************************)
(* The state.                                                              *)
(***************************************************************************)
VARIABLES
  fs,               \* the files: path -> content
  dirs,             \* the directories that exist
  csv,              \* the mapping file
  pc,               \* where the application is
  runs,             \* how many times Execute was pressed
  rowIdx,           \* process_files: the rows the reader has yielded
  not_found_roles,  \* process_files: the list of the roles not found
  role,             \* process_role: its local variables
  result,           \* process_role: what it returned, and from where
  handed,           \* the rows handed to process_role in this run
  ended,            \* how the last run of process_files ended
  outcomes,         \* the outcome of each row of this run
  prev,             \* the outcomes of the run before
  fs0,              \* the files when process_role (or the run) was entered
  faults            \* the filesystem operations that failed so far

vars ==
  <<fs, dirs, csv, pc, runs, rowIdx, not_found_roles, role, result, handed,
    ended, outcomes, prev, fs0, faults>>

\* process_role's local variables before it is called.
NoRole ==
  [original_role |-> None, new_role |-> None, old_file_path |-> None,
   content |-> None, content_new |-> None]

NoResult == [ret |-> None, kind |-> "none", step |-> "none"]

Init ==
  /\ \E places \in InitialPlaces :
       /\ fs = [p \in {path_join(d, format_file_name(ExistingRole)) : d \in places}
                  |-> IF dirname(p) = DisabledFolder
                      THEN mark_disabled(RoleDocument(ExistingRole))
                      ELSE RoleDocument(ExistingRole)]
       /\ dirs = {BundleRoot, SubFolder} \cup places
  /\ csv \in CsvFiles
  /\ pc = "idle"
  /\ runs = 0
  /\ rowIdx = 0
  /\ not_found_roles = <<>>
  /\ role = NoRole
  /\ result = NoResult
  /\ handed = 0
  /\ ended = "none"
  /\ outcomes = <<>>
  /\ prev = <<>>
  /\ fs0 = fs
  /\ faults = 0

\* The row the reader yields next.
CurrentRow == DictRow(csv.header, csv.rows[rowIdx + 1])

\* Mutant: only the first of the two required columns is looked for.
MissingHeaders_OriginalOnly(row) == OriginalColumn \notin DOMAIN row

\* if 'Original Role Name' not in row or 'New Role Name' not in row
MissingHeaders(row) ==
  OriginalColumn \notin DOMAIN row \/ NewColumn \notin DOMAIN row

\* Python's truth value of process_role's result: None and '' are false.
Truthy(value) == value # None /\ value # <<>>

\* process_files ends: the run is over.
EndRun(how) ==
  /\ pc' = "idle"
  /\ ended' = how
  /\ role' = NoRole
  /\ result' = NoResult

(***************************************************************************)
(* execute_process and process_files.                                      *)
(***************************************************************************)
\* Mutant: the disabled folder is not made before process_files starts.
ExecuteProcess_NoMakedirs ==
  /\ pc = "idle"
  /\ runs < MaxRuns
  /\ runs' = runs + 1
  /\ not_found_roles' = <<>>
  /\ rowIdx' = 0
  /\ handed' = 0
  /\ prev' = outcomes
  /\ outcomes' = <<>>
  /\ fs0' = fs
  /\ role' = NoRole
  /\ result' = NoResult
  /\ IF csv.exists
     THEN pc' = "rows" /\ ended' = "running"
     ELSE pc' = "idle" /\ ended' = "no_csv"
  /\ UNCHANGED <<fs, dirs, csv, faults>>

\* Execute is pressed: the disabled folder is made if it is missing, then
\* process_files starts; it returns at once when there is no mapping file.
ExecuteProcess ==
  /\ pc = "idle"
  /\ runs < MaxRuns
  /\ runs' = runs + 1
  /\ dirs' = dirs \cup {DisabledFolder}
  /\ not_found_roles' = <<>>
  /\ rowIdx' = 0
  /\ handed' = 0
  /\ prev' = outcomes
  /\ outcomes' = <<>>
  /\ fs0' = fs
  /\ role' = NoRole
  /\ result' = NoResult
  /\ IF csv.exists
     THEN pc' = "rows" /\ ended' = "running"
     ELSE pc' = "idle" /\ ended' = "no_csv"
  /\ UNCHANGED <<fs, csv>>
  /\ UNCHANGED faults

\* The first row shows that a required column is missing: process_files
\* returns.
HeaderError ==
  /\ pc = "rows"
  /\ rowIdx < Len(csv.rows)
  /\ MissingHeaders(CurrentRow)
  /\ EndRun("header_error")
  /\ UNCHANGED <<fs, dirs, csv, runs, rowIdx, not_found_roles, handed,
                 outcomes, prev, fs0>>
  /\ UNCHANGED faults

\* Whether process_role's first two lines raise on this row: a field that is
\* None has no strip.
RaisesOnFields(row) ==
  \/ OriginalColumn \notin DOMAIN row
  \/ NewColumn \notin DOMAIN row
  \/ row[OriginalColumn] = None
  \/ row[NewColumn] = None

\* The row is handed to process_role, whose first lines raise: the exception
\* leaves the loop and is caught by process_files' handler, which ends the
\* run.
RowFieldMissing ==
  /\ pc = "rows"
  /\ rowIdx < Len(csv.rows)
  /\ ~MissingHeaders(CurrentRow)
  /\ RaisesOnFields(CurrentRow)
  /\ handed' = handed + 1
  /\ rowIdx' = rowIdx + 1
  /\ fs0' = fs
  /\ EndRun("exception")
  /\ UNCHANGED <<fs, dirs, csv, runs, not_found_roles, outcomes, prev>>
  /\ UNCHANGED faults

\* process_role's local variables once the names are trimmed.
RoleOf(row) ==
  [original_role |-> strip(row[OriginalColumn]),
   new_role |-> strip(row[NewColumn]),
   old_file_path |-> None, content |-> None, content_new |-> None]

\* Mutant: the new file is opened before the original is looked for.
RoleNotFound_OpensNewFileFirst ==
  /\ pc = "rows"
  /\ rowIdx < Len(csv.rows)
  /\ ~MissingHeaders(CurrentRow)
  /\ ~RaisesOnFields(CurrentRow)
  /\ LET r == RoleOf(CurrentRow)
     IN  /\ find_file_recursive(fs, BundleRoot,
                                format_file_name(r.original_role)) = {}
         /\ role' = r
         /\ result' = [ret |-> r.original_role, kind |-> "NotFound",
                       step |-> "locate"]
         /\ fs' = WriteFile(fs, path_join(BundleRoot,
                                          format_file_name(r.new_role)), <<>>)
  /\ handed' = handed + 1
  /\ rowIdx' = rowIdx + 1
  /\ fs0' = fs
  /\ pc' = "returned"
  /\ UNCHANGED <<dirs, csv, runs, not_found_roles, ended, outcomes, prev,
                 faults>>

\* The row is handed to process_role, which finds no file of the original
\* role and returns the role.
RoleNotFound ==
  /\ pc = "rows"
  /\ rowIdx < Len(csv.rows)
  /\ ~MissingHeaders(CurrentRow)
  /\ ~RaisesOnFields(CurrentRow)
  /\ LET r == RoleOf(CurrentRow)
     IN  /\ find_file_recursive(fs, BundleRoot,
                                format_file_name(r.original_role)) = {}
         /\ role' = r
         /\ result' = [ret |-> r.original_role, kind |-> "NotFound",
                       step |-> "locate"]
  /\ handed' = handed + 1
  /\ rowIdx' = rowIdx + 1
  /\ fs0' = fs
  /\ pc' = "returned"
  /\ UNCHANGED <<fs, dirs, csv, runs, not_found_roles, ended, outcomes, prev>>
  /\ UNCHANGED faults

\* The row is handed to process_role, which finds the original role's file.
RoleLocated ==
  /\ pc = "rows"
  /\ rowIdx < Len(csv.rows)
  /\ ~MissingHeaders(CurrentRow)
  /\ ~RaisesOnFields(CurrentRow)
  /\ LET r == RoleOf(CurrentRow)
     IN  \E found \in find_file_recursive(fs, BundleRoot,
                                          format_file_name(r.original_role)) :
           role' = [r EXCEPT !.old_file_path = found]
  /\ handed' = handed + 1
  /\ rowIdx' = rowIdx + 1
  /\ fs0' = fs
  /\ pc' = "read"
  /\ UNCHANGED <<fs, dirs, csv, runs, not_found_roles, result, ended,
                 outcomes, prev>>
  /\ UNCHANGED faults

(***************************************************************************)
(* process_role after the original's file is found.                        *)
(***************************************************************************)
\* Mutant: the new file is written into the bundle folder itself.
new_file_path_InBundleRoot ==
  path_join(BundleRoot, format_file_name(role.new_role))

old_file_name == format_file_name(role.original_role)
new_file_name == format_file_name(role.new_role)
new_file_path == path_join(dirname(role.old_file_path), new_file_name)
disabled_file_path == path_join(DisabledFolder, old_file_name)

\* process_role returns: None after the last step, the original role from
\* the handler of the try block.
Return(kind, step) ==
  /\ pc' = "returned"
  /\ result' = [ret |-> IF kind = "Success" THEN None ELSE role.original_role,
                kind |-> kind, step |-> step]

\* A write that fails: open() raises and the file is as it was, or open()
\* has truncated (or made) the file and the write or the close raises.
FailedWrite(files, path) ==
  {files} \cup (IF dirname(path) \in dirs THEN {WriteFile(files, path, <<>>)}
                ELSE {})

\* The original is read and the content of the new file is computed; re.sub
\* raises on a template it cannot parse, and the handler returns the role.
ReadOriginal ==
  /\ pc = "read"
  /\ LET content == fs[role.old_file_path]
         content_new ==
           rewrite_identity(content, escape_special_characters(role.new_role))
     IN  IF content_new = ReError
         THEN /\ role' = [role EXCEPT !.content = content]
              /\ Return("Error", "rewrite")
         ELSE /\ role' = [role EXCEPT !.content = content,
                                      !.content_new = content_new]
              /\ pc' = "write_new"
              /\ UNCHANGED result
  /\ UNCHANGED <<fs, dirs, csv, runs, rowIdx, not_found_roles, handed, ended,
                 outcomes, prev, fs0>>
  /\ UNCHANGED faults

\* Reading the original raises.
ReadOriginalFails ==
  /\ faults < MaxFaults
  /\ faults' = faults + 1
  /\ pc = "read"
  /\ Return("Error", "read")
  /\ UNCHANGED <<fs, dirs, csv, runs, rowIdx, not_found_roles, role, handed,
                 ended, outcomes, prev, fs0>>

\* The new file is written beside the original.
WriteNewFile ==
  /\ pc = "write_new"
  /\ fs' = WriteFile(fs, new_file_path, role.content_new)
  /\ pc' = "write_disabled"
  /\ UNCHANGED <<dirs, csv, runs, rowIdx, not_found_roles, role, result,
                 handed, ended, outcomes, prev, fs0>>
  /\ UNCHANGED faults

\* Writing the new file raises.
WriteNewFileFails ==
  /\ faults < MaxFaults
  /\ faults' = faults + 1
  /\ pc = "write_new"
  /\ fs' \in FailedWrite(fs, new_file_path)
  /\ Return("Error", "write_new")
  /\ UNCHANGED <<dirs, csv, runs, rowIdx, not_found_roles, role, handed,
                 ended, outcomes, prev, fs0>>

\* The original's content, marked disabled, is written into the disabled
\* folder.
WriteDisabledFile ==
  /\ pc = "write_disabled"
  /\ DisabledFolder \in dirs
  /\ fs' = WriteFile(fs, disabled_file_path, mark_disabled(role.content))
  /\ pc' = "remove"
  /\ UNCHANGED <<dirs, csv, runs, rowIdx, not_found_roles, role, result,
                 handed, ended, outcomes, prev, fs0>>
  /\ UNCHANGED faults

\* Mutant: the handler of a failed write of the disabled copy removes the
\* original.
WriteDisabledFileFails_RemovesOriginal ==
  /\ faults < MaxFaults
  /\ faults' = faults + 1
  /\ pc = "write_disabled"
  /\ fs' = IF role.old_file_path \in DOMAIN fs
           THEN RemoveFile(fs, role.old_file_path) ELSE fs
  /\ Return("Error", "write_disabled")
  /\ UNCHANGED <<dirs, csv, runs, rowIdx, not_found_roles, role, handed,
                 ended, outcomes, prev, fs0>>

\* Writing the disabled copy raises.
WriteDisabledFileFails ==
  /\ faults < MaxFaults
  /\ faults' = faults + 1
  /\ pc = "write_disabled"
  /\ fs' \in FailedWrite(fs, disabled_file_path)
  /\ Return("Error", "write_disabled")
  /\ UNCHANGED <<dirs, csv, runs, rowIdx, not_found_roles, role, handed,
                 ended, outcomes, prev, fs0>>

\* The original is removed if it exists, and process_role returns None.
RemoveOriginal ==
  /\ pc = "remove"
  /\ fs' = IF role.old_file_path \in DOMAIN fs
           THEN RemoveFile(fs, role.old_file_path) ELSE fs
  /\ Return("Success", "none")
  /\ UNCHANGED <<dirs, csv, runs, rowIdx, not_found_roles, role, handed,
                 ended, outcomes, prev, fs0>>
  /\ UNCHANGED faults

\* Mutant: a failed removal is only logged, and process_role returns None.
RemoveOriginalFails_Ignored ==
  /\ faults < MaxFaults
  /\ faults' = faults + 1
  /\ pc = "remove"
  /\ role.old_file_path \in DOMAIN fs
  /\ pc' = "returned"
  /\ result' = [ret |-> None, kind |-> "Success", step |-> "remove"]
  /\ UNCHANGED <<fs, dirs, csv, runs, rowIdx, not_found_roles, role, handed,
                 ended, outcomes, prev, fs0>>

\* os.remove raises: the handler returns the role.
RemoveOriginalFails ==
  /\ faults < MaxFaults
  /\ faults' = faults + 1
  /\ pc = "remove"
  /\ role.old_file_path \in DOMAIN fs
  /\ Return("Error", "remove")
  /\ UNCHANGED <<fs, dirs, csv, runs, rowIdx, not_found_roles, role, handed,
                 ended, outcomes, prev, fs0>>

(***************************************************************************)
(* process_files after process_role.                                       *)
(***************************************************************************)
\* if not_found_role: not_found_roles.append(not_found_role)
RecordOutcome ==
  /\ pc = "returned"
  /\ not_found_roles' = IF Truthy(result.ret)
                        THEN Append(not_found_roles, result.ret)
                        ELSE not_found_roles
  /\ outcomes' = Append(outcomes, result.kind)
  /\ pc' = "rows"
  /\ UNCHANGED <<fs, dirs, csv, runs, rowIdx, role, result, handed, ended,
                 prev, fs0>>
  /\ UNCHANGED faults

RECURSIVE ReportText(_)
\* for role in not_found_roles: f.write(f"{role}\n")
ReportText(roles) ==
  IF roles = <<>> THEN <<>>
  ELSE Head(roles) \o <<"\n">> \o ReportText(Tail(roles))

not_found_file == path_join(BundleRoot, NotFoundFile)

\* The rows are exhausted: the list of the roles not found is written if it
\* is not empty, and the run is over.
WriteReport ==
  /\ pc = "rows"
  /\ rowIdx = Len(csv.rows)
  /\ fs' = IF not_found_roles # <<>>
           THEN WriteFile(fs, not_found_file, ReportText(not_found_roles))
           ELSE fs
  /\ EndRun("completed")
  /\ UNCHANGED <<dirs, csv, runs, rowIdx, not_found_roles, handed, outcomes,
                 prev, fs0>>
  /\ UNCHANGED faults

Next ==
  \/ ExecuteProcess
  \/ HeaderError
  \/ RowFieldMissing
  \/ RoleNotFound
  \/ RoleLocated
  \/ ReadOriginal
  \/ ReadOriginalFails
  \/ WriteNewFile
  \/ WriteNewFileFails
  \/ WriteDisabledFile
  \/ WriteDisabledFileFails
  \/ RemoveOriginal
  \/ RemoveOriginalFails
  \/ RecordOutcome
  \/ WriteReport

Spec == Init /\ [][Next]_vars

(***************************************************************************)
(* The text functions on their own: format_file_name,                      *)
(* escape_special_characters and the identity rewrite applied to every     *)
(* short text.  The text is held in process_role's local variables and the *)
(* value computed in result; no file and no mapping file is involved.      *)
(***************************************************************************)
\* The characters of the texts: a letter, a letter that is not ASCII, a
\* digit, the underscore, the hyphen, the space and the five characters
\* escape_special_characters replaces.
TextChars == {"A", "é", "1", "_", "-", " ", "&", "<", ">", "\"", "'"}

\* The texts of at most MaxTextLen characters.
Texts == SeqsUpTo(TextChars, MaxTextLen)

\* The documents the rewrite is applied to: a role file, a file with two
\* identity pairs, a file whose two attributes are a line break and a space
\* apart, and a file whose attributes are in the other order.
Documents ==
  { RoleDocument(<<"A">>),
    RoleDocument(<<"A">>) \o RoleDocument(<<"&">>),
    Concat(<< BundleTag, <<" ">>, displayNameEq, <<"A", "\"", "\n", " ">>,
              nameEq, <<"A", "\"", ">">> >>),
    Concat(<< BundleTag, <<" ">>, nameEq, <<"A", "\"", " ">>,
              displayNameEq, <<"A", "\"", ">">> >>) }

InitText ==
  /\ fs = [p \in {} |-> <<>>]
  /\ dirs = {}
  /\ csv = [exists |-> FALSE, header |-> <<>>, rows |-> <<>>]
  /\ pc = "text"
  /\ runs = 0
  /\ rowIdx = 0
  /\ not_found_roles = <<>>
  /\ \E t \in Texts, d \in Documents :
       role = [original_role |-> t, new_role |-> t, old_file_path |-> None,
               content |-> d, content_new |-> None]
  /\ result = NoResult
  /\ handed = 0
  /\ ended = "none"
  /\ outcomes = <<>>
  /\ prev = <<>>
  /\ fs0 = fs
  /\ faults = 0

\* A text function has been applied: its value is in result.ret.
Computed(function, value) ==
  /\ pc = "text"
  /\ pc' = "computed"
  /\ result' = [ret |-> value, kind |-> function, step |-> "none"]
  /\ UNCHANGED <<fs, dirs, csv, runs, rowIdx, not_found_roles, role, handed,
                 ended, outcomes, prev, fs0, faults>>

\* old_file_name = format_file_name(original_role)
FormatFileName ==
  Computed("format_file_name", format_file_name(role.original_role))

\* new_role_escaped = escape_special_characters(new_role)
EscapeSpecialCharacters ==
  Computed("escape_special_characters",
           escape_special_characters(role.new_role))

\* content_new = re.sub(...) with the escaped new role
RewriteIdentity ==
  Computed("rewrite_identity",
           rewrite_identity(role.content,
                            escape_special_characters(role.new_role)))

NextText ==
  \/ FormatFileName
  \/ EscapeSpecialCharacters
  \/ RewriteIdentity

SpecText == InitText /\ [][NextText]_vars

(***************************************************************************)
(* What the claims speak of.                                               *)
(***************************************************************************)
\* process_role has returned and process_files has not yet looked at the
\* result.
Returned == pc = "returned"

\* process_role is at work on a located row, or has returned.
InRole == pc \in {"read", "write_new", "write_disabled", "remove", "returned"}

\* The content of the original's file when process_role was entered.
OriginalContent == fs0[role.old_file_path]

\* Where the claims place the renamed file and the archived copy.
RenamedPath ==
  path_join(dirname(role.old_file_path), format_file_name(role.new_role))
ArchivedPath == path_join(DisabledFolder, format_file_name(role.original_role))

\* No file under the bundle folder has the original's file name.
OriginalAbsent ==
  \A d \in {BundleRoot} \cup SubDirs :
    path_join(d, format_file_name(role.original_role)) \notin DOMAIN fs0

\* The header row has both required columns.
HeaderValid ==
  /\ csv.exists
  /\ {OriginalColumn, NewColumn}
       \subseteq {csv.header[i] : i \in 1..Len(csv.header)}

RECURSIVE Unresolved(_)
\* The trimmed original names of the first n rows whose outcome was not
\* Success, in row order.
Unresolved(n) ==
  IF n = 0 THEN <<>>
  ELSE LET rest == Unresolved(n - 1)
           name == strip(DictRow(csv.header, csv.rows[n])[OriginalColumn])
       IN  IF outcomes[n] # "Success" THEN Append(rest, name) ELSE rest

\* C1 (as claimed): when the same mapping is run a second time, a row that
\* process_role completed with Success in the first run is not found: the
\* row is never located, process_role returns with NotFound and the files
\* are as they were when it was entered.
C1_RerunNotFound ==
  (/\ runs = 2
   /\ InRole
   /\ handed \in 1..Len(prev)
   /\ prev[handed] = "Success")
  => (/\ Returned
      /\ result.kind = "NotFound"
      /\ fs = fs0)

\* C2 (as claimed): with a valid header, whatever the rows hold, every data
\* row is handed to process_role and the run reaches the writing of the
\* report.
C2_BatchIsolation ==
  (pc = "idle" /\ runs >= 1 /\ HeaderValid)
  => (handed = Len(csv.rows) /\ ended = "completed")

\* C3 (as claimed): after all the rows are processed, the unresolved list is
\* the trimmed original names of the rows whose outcome was not Success, in
\* row order, the empty name included, and the report holds them one per
\* line if and only if there is one.
C3_ReportContents ==
  (pc = "idle" /\ ended = "completed" /\ HeaderValid)
  => LET expected == Unresolved(Len(csv.rows))
     IN  /\ not_found_roles = expected
         /\ expected # <<>> =>
              /\ not_found_file \in DOMAIN fs
              /\ fs[not_found_file] = ReportText(expected)
         /\ (expected = <<>> /\ runs = 1) => not_found_file \notin DOMAIN fs

\* C4 (as claimed): when the removal of the original fails after both
\* writes, process_role does not return the original role name.
C4_RemoveFailureIsSuccess ==
  (Returned /\ result.step = "remove") => result.ret = None

\* C4 (amended): when the removal of the original fails after both writes,
\* the row's outcome is Error: process_role returns the original role name,
\* the archived copy written before stays, the original is still at
\* old_path, and process_files appends the name to the unresolved list when
\* it is not empty.
C4_RemoveFailureIsError ==
  /\ (Returned /\ result.step = "remove")
     => /\ result.ret = role.original_role
        /\ result.ret # None
        /\ role.old_file_path \in DOMAIN fs
        /\ ArchivedPath \in DOMAIN fs
        /\ fs[ArchivedPath] = mark_disabled(OriginalContent)
  /\ (pc = "rows" /\ result.step = "remove" /\ result.ret # <<>>)
     => /\ not_found_roles # <<>>
        /\ not_found_roles[Len(not_found_roles)] = role.original_role

C4_Witness ==
  /\ pc = "rows"
  /\ result.step = "remove"
  /\ not_found_roles = <<role.original_role>>

\* C5: when the header lacks a required column, no row reaches process_role
\* and no file is created, modified or removed, however many data rows
\* there are.
C5_FatalHeader ==
  (csv.exists /\ ~HeaderValid /\ runs >= 1)
  => /\ handed = 0
     /\ outcomes = <<>>
     /\ ~InRole
     /\ fs = fs0
     /\ not_found_file \notin DOMAIN fs

C5_Witness ==
  /\ ended = "header_error"
  /\ pc = "idle"
  /\ Len(csv.rows) = MaxRows
  /\ NewColumn \notin {csv.header[i] : i \in 1..Len(csv.header)}

\* C6 (as claimed): after a row whose outcome is Success, the file named
\* canonical_name(new) exists in the directory of old_path and holds the
\* original content with the identity rewritten to escape(new).
C6_RenamedFileExists ==
  (Returned /\ result.ret = None)
  => /\ RenamedPath \in DOMAIN fs
     /\ fs[RenamedPath] =
          rewrite_identity(OriginalContent,
                           escape_special_characters(role.new_role))

\* C7 (as claimed): after a row whose outcome is Success, wherever the
\* original was found, the archived copy exists and holds mark_disabled of
\* the original content.
C7_ArchivedCopyExists ==
  (Returned /\ result.ret = None)
  => /\ ArchivedPath \in DOMAIN fs
     /\ fs[ArchivedPath] = mark_disabled(OriginalContent)

\* C8: when no file under the bundle folder has the original's file name,
\* process_role returns the original role name and leaves the filesystem
\* unchanged.
C8_NotFoundNoSideEffects ==
  (InRole /\ OriginalAbsent)
  => /\ Returned
     /\ result.ret = role.original_role
     /\ fs = fs0

C8_Witness ==
  /\ Returned
  /\ OriginalAbsent
  /\ result.ret = role.original_role
  /\ DOMAIN fs # {}

\* C9 (as claimed): when writing the renamed file fails, the original role
\* is returned, the file at old_path still has its original content and
\* nothing is written to the disabled folder.
C9_NewWriteFailureKeepsOriginal ==
  (Returned /\ result.step = "write_new")
  => /\ result.ret = role.original_role
     /\ role.old_file_path \in DOMAIN fs
     /\ fs[role.old_file_path] = OriginalContent
     /\ \A p \in DOMAIN fs \cup DOMAIN fs0 :
          dirname(p) = DisabledFolder
          => (p \in DOMAIN fs /\ p \in DOMAIN fs0 /\ fs[p] = fs0[p])

\* C10 (as claimed): when writing the archived copy fails, the original
\* role is returned, the renamed file is in place with its rewritten
\* content and the original is not removed.
C10_ArchiveWriteFailureKeepsRenamed ==
  (Returned /\ result.step = "write_disabled")
  => /\ result.ret = role.original_role
     /\ RenamedPath \in DOMAIN fs
     /\ fs[RenamedPath] = role.content_new
     /\ role.old_file_path \in DOMAIN fs

(***************************************************************************)
(* Claims about the text functions (under SpecText).                       *)
(***************************************************************************)
\* The part of a file name between "NAB_Bundle_" and ".xml".
NameBody(file_name) == SubSeq(file_name, 12, Len(file_name) - 4)

\* The file name starts with NAB_Bundle_ and ends with .xml.
WrappedName(file_name) ==
  /\ Len(file_name) >= 15
  /\ SubSeq(file_name, 1, 11)
       = <<"N", "A", "B", "_", "B", "u", "n", "d", "l", "e", "_">>
  /\ SubSeq(file_name, Len(file_name) - 3, Len(file_name))
       = <<".", "x", "m", "l">>

\* C11 (as claimed): for every input string, the empty one and those with
\* letters that are not ASCII included, format_file_name's result matches
\* NAB_Bundle_[A-Za-z0-9_-]+\.xml.
C11_MatchesAsciiPattern ==
  (pc = "computed" /\ result.kind = "format_file_name")
  => /\ WrappedName(result.ret)
     /\ Len(NameBody(result.ret)) >= 1
     /\ \A i \in 1..Len(NameBody(result.ret)) :
          NameBody(result.ret)[i] \in AsciiLetters \cup Digits \cup {"_", "-"}

\* C11 (amended): for every input string, format_file_name's result is
\* NAB_Bundle_, then the input (empty if the input is) with each character
\* that is neither a letter or a digit of any alphabet, nor "_", nor "-"
\* replaced by "_" and every other character kept, then .xml.
C11_MatchesWordPattern ==
  (pc = "computed" /\ result.kind = "format_file_name")
  => /\ WrappedName(result.ret)
     /\ Len(NameBody(result.ret)) = Len(role.original_role)
     /\ \A i \in 1..Len(role.original_role) :
          LET c == role.original_role[i]
          IN  NameBody(result.ret)[i] =
                IF c \in {"A", "é", "1", "_", "-"} THEN c ELSE "_"

C11_Witness ==
  /\ pc = "computed"
  /\ result.kind = "format_file_name"
  /\ role.original_role = <<"-", "é">>
  /\ NameBody(result.ret) = <<"-", "é">>

\* What one character becomes when a text is escaped in a single pass.
EscapedChar(c) ==
  CASE c = "&" -> <<"&", "a", "m", "p", ";">>
    [] c = "<" -> <<"&", "l", "t", ";">>
    [] c = ">" -> <<"&", "g", "t", ";">>
    [] c = "\"" -> <<"&", "q", "u", "o", "t", ";">>
    [] c = "'" -> <<"&", "a", "p", "o", "s", ";">>
    [] OTHER -> <<c>>

RECURSIVE SinglePassEscape(_)
SinglePassEscape(text) ==
  IF text = <<>> THEN <<>>
  ELSE EscapedChar(Head(text)) \o SinglePassEscape(Tail(text))

\* C12: for every input string, escape_special_characters' result is the
\* character by character substitution of the five characters: no ampersand
\* that a replacement brought in is escaped again.
C12_EscapeIsSinglePass ==
  (pc = "computed" /\ result.kind = "escape_special_characters")
  => result.ret = SinglePassEscape(role.new_role)

C12_Witness ==
  /\ pc = "computed"
  /\ result.kind = "escape_special_characters"
  /\ role.new_role = <<"<", "&">>
  /\ result.ret = <<"&", "l", "t", ";", "&", "a", "m", "p", ";">>

RECURSIVE ExpectedRewriteFrom(_, _, _)
\* The text from position i on in which the two quoted values of every
\* identity pair are replaced by value and nothing else is changed.
ExpectedRewriteFrom(s, i, value) ==
  IF i > Len(s) THEN <<>>
  ELSE LET e == IdentityMatchEnd(s, i)
           q1 == NextQuote(s, i + Len(displayNameEq))
           w == SkipWhitespace(s, q1 + 1)
       IN  IF e = 0 THEN <<s[i]>> \o ExpectedRewriteFrom(s, i + 1, value)
           ELSE Concat(<< displayNameEq, value, SubSeq(s, q1, w - 1),
                          nameEq, value, <<"\"">>,
                          ExpectedRewriteFrom(s, e + 1, value) >>)

\* C13 (as claimed): for every document and every new role name, the content
\* of the renamed file is the original content in which both quoted values
\* of every displayName/name pair are escape(new) and every character
\* outside them is as in the original.
C13_IdentityRewrite ==
  (pc = "computed" /\ result.kind = "rewrite_identity")
  => result.ret =
       ExpectedRewriteFrom(role.content, 1,
                           escape_special_characters(role.new_role))

(***************************************************************************)
(* Claims about process_role's steps, the disabled folder and the report   *)
(* (under Spec).                                                           *)
(***************************************************************************)
\* The original was located for the row at hand.
Located == InRole /\ role.old_file_path # None

\* What holds of the files at each step of a row.
StepsInOrder ==
  /\ pc = "remove"
     => (RenamedPath \in DOMAIN fs /\ ArchivedPath \in DOMAIN fs)
  /\ (Returned /\ result.kind = "Success")
     => role.old_file_path \notin DOMAIN fs
  /\ (Returned /\ result.kind = "Error")
     => (role.old_file_path \in DOMAIN fs /\ DOMAIN fs0 \subseteq DOMAIN fs)
  /\ (Returned /\ result.kind = "NotFound") => DOMAIN fs = DOMAIN fs0

\* What a step of process_role may do: the steps follow one another in the
\* order locate, read, write the new file, write the disabled copy, remove,
\* and a file disappears only in the step that removes the original and
\* returns None.
StepInOrder ==
  /\ pc' # pc =>
       /\ pc' = "read" => pc = "rows"
       /\ pc' = "write_new" => pc = "read"
       /\ pc' = "write_disabled" => pc = "write_new"
       /\ pc' = "remove" => pc = "write_disabled"
  /\ DOMAIN fs \ DOMAIN fs' # {} =>
       /\ pc = "remove"
       /\ DOMAIN fs \ DOMAIN fs' = {role.old_file_path}
       /\ pc' = "returned"
       /\ result'.kind = "Success"

C15_ArchiveDirExists ==
  /\ (runs >= 1 \/ pc # "idle") => DisabledFolder \in dirs
  /\ pc = "write_disabled" => dirname(disabled_file_path) \in dirs

\* The disabled folder was missing when Execute was pressed, and the disabled
\* copy of the first row has been written into it.
C15_Witness ==
  /\ runs = 1
  /\ handed = 1
  /\ pc = "remove"
  /\ \A p \in DOMAIN fs0 : dirname(p) # DisabledFolder
  /\ ArchivedPath \in DOMAIN fs
  /\ dirname(role.old_file_path) # DisabledFolder

\* C16 (as claimed): in every state during and after the processing of a
\* located row, the original's content is on disk, unmodified at old_path or
\* as its disabled copy in the disabled folder.
C16_OriginalNotLost ==
  Located
  => \/ /\ role.old_file_path \in DOMAIN fs
        /\ fs[role.old_file_path] = OriginalContent
     \/ /\ ArchivedPath \in DOMAIN fs
        /\ fs[ArchivedPath] = mark_disabled(OriginalContent)

\* The paths process_role may create, overwrite or remove for the row at
\* hand: none when the original is not found.
RowPaths ==
  IF role.old_file_path = None THEN {}
  ELSE {RenamedPath, ArchivedPath, role.old_file_path}

\* Every file outside the row's paths is as it was when process_role was
\* entered.
FrameOfRow ==
  InRole
  => \A p \in (DOMAIN fs \cup DOMAIN fs0) \ RowPaths :
       /\ p \in DOMAIN fs
       /\ p \in DOMAIN fs0
       /\ fs[p] = fs0[p]

\* C17: process_role creates, overwrites or removes at most the renamed
\* file's path, the disabled copy's path and old_path; every other file is
\* left as it was, whatever the row's outcome, and no step of process_role
\* changes the mapping.
C17_FrameOfRow ==
  []FrameOfRow /\ [][(pc # "rows" /\ InRole') => csv' = csv]_vars

\* A row has ended Success and a file that is none of its three paths is on
\* disk.
C17_Witness ==
  /\ Returned
  /\ result.kind = "Success"
  /\ fs # fs0
  /\ \E p \in DOMAIN fs : p \notin RowPaths

\* C18 (as claimed): after a completed run the report exists if and only if
\* a row of that run was unresolved, and then it lists that run's unresolved
\* roles only.
C18_ReportOfLatestRun ==
  (pc = "idle" /\ ended = "completed")
  => /\ not_found_file \in DOMAIN fs
        <=> (\E i \in 1..Len(outcomes) : outcomes[i] # "Success")
     /\ not_found_file \in DOMAIN fs
        => fs[not_found_file] = ReportText(Unresolved(Len(csv.rows)))

\* A report left by the run before is on disk after a run in which every row
\* succeeded.
C18_StaleReport ==
  /\ pc = "idle"
  /\ ended = "completed"
  /\ runs = 2
  /\ outcomes # <<>>
  /\ \A i \in 1..Len(outcomes) : outcomes[i] = "Success"
  /\ not_found_file \in DOMAIN fs

====
